---- MODULE Spec2Model ----
(***************************************************************************)
(* Model of src/main.ts: the credential/session lifecycle (start,          *)
(* getTokenLogin, startWithToken), the SAS device-verification flow, the   *)
(* timeline pipeline and getRoomList.                                      *)
(*                                                                         *)
(* Spec runs the program from an empty store, with crashes and restarts,   *)
(* up to the start of the pipeline; SpecPipeline runs the pipeline from    *)
(* the ready session; SpecRooms applies getRoomList to bounded room lists. *)
(*                                                                         *)
(* The program is one asynchronous flow of control.  pc names the await    *)
(* (or the synchronous statement) the flow stands at.  The environment     *)
(* (sync loop reports, the peer device, timers) can only act while the     *)
(* flow is suspended in an await: see Suspended.                           *)
(***************************************************************************)
EXTENDS Integers, Sequences, FiniteSets, TLC

\* ---------------------------------------------------------------- bounds
MaxLogins == 3
MaxLive == 2
MaxBackfill == 2
MaxRooms == 3
MaxTs == 2
MaxRoomEvents == 2

Users == {"alice", "bob"}

\* ------------------------------------------------------------- constants
\* localStorage.getItem returns null for a missing key
Null == 0

\* values the homeserver issues on the n-th password login
AccessTokenOf(n) == n
DeviceIdOf(n) == 100 + n

NoLogin == [accessToken |-> Null, deviceId |-> Null]

\* VerificationPhase of matrix-js-sdk/lib/crypto-api; NoRequest: no verReq yet
NoRequest == 0
Unsent == 1
Requested == 2
Ready == 3
Started == 4
Cancelled == 5
Done == 6

\* answers of prompt("Accept? [y/n]"); "null" stands for a closed stdin
Inputs == {"y", "n", "Y", "null"}

VARIABLES
  localStorage,   \* [token: [Users -> value], device: [Users -> value]]
  loginCount,     \* password logins the homeserver has served so far
  persisted,      \* history: per user, the pair a fresh-authentication run finished storing
  pc,             \* position of the flow of control
  userId,         \* passwordLogin.userId of this run
  accessToken,    \* local of start
  deviceId,       \* local of start
  tokenLogin,     \* local of start
  path,           \* "none" | "fresh" | "fast": branch of start taken by this run
  loggedIn,       \* this run performed a password login
  session,        \* options createClient was called with, NoLogin before
  fault,          \* message of the uncaught error, "" if none
  exitCode,       \* -1 while running
  syncRunning,    \* the sync loop of the client is running
  syncState,      \* last state the sync loop reported, "null" before the first
  hasSyncedBefore,\* the sync loop completed a first sync (reported PREPARED)
  syncResult,     \* value the promise of L41 resolved with, "none" before
  kbCalls,        \* completed calls of crypto.checkKeyBackupAndEnable
  isVerified,     \* "unknown" | "yes" | "no": verstatus.isVerified()
  phase,          \* verReq.phase
  verifierBound,  \* verReq.verifier is defined
  verifyState,    \* promise `wait`: "none" | "pending" | "resolved" | "rejected"
  sasReady,       \* the verifier holds its ShowSasCallbacks
  sas,            \* local sas: "unread" | "undefined" | "callbacks"
  input,          \* answer of the prompt, "none" before
  confirmCalls,   \* calls of sas.confirm
  mismatchCalls,  \* calls of sas.mismatch
  accepted,       \* "Accepted" was logged
  listenerOn,     \* the RoomEvent.Timeline listener is registered
  roomFound,      \* "unknown" | "yes" | "no": result of the lookup of room "Emil"
  backfillRequested, \* client.scrollback was issued
  timeline,       \* events of the live timeline of room "Emil", in timeline order
  liveCount,      \* live events delivered to the room so far
  pending,        \* ids of events whose listener call is suspended in decryptEventIfNeeded
  decrypted,      \* ids of events whose decryption has completed
  sink,           \* what console.log(event.getContent()) has printed, in order
  backfillState,  \* "idle" | "arrived" | "scanned": the scrollback promise and its then-callback
  rooms,          \* client.getRooms(): each room is the sequence of timestamps of its live timeline
  roomList,       \* result of getRoomList: indexes into rooms, in result order
  listed          \* getRoomList has returned

credVars == <<localStorage, loginCount, persisted>>
startVars == <<userId, accessToken, deviceId, tokenLogin, path, loggedIn, session>>
endVars == <<fault, exitCode>>
syncVars == <<syncRunning, syncState, hasSyncedBefore, syncResult>>
verVars == <<kbCalls, isVerified, phase, verifierBound, verifyState, sasReady, sas,
             input, confirmCalls, mismatchCalls, accepted>>
timelineVars == <<timeline, liveCount, pending, decrypted, sink, backfillState>>
roomVars == <<rooms, roomList, listed>>
pipeVars == <<listenerOn, roomFound, backfillRequested, timelineVars, roomVars>>
vars == <<credVars, pc, startVars, endVars, syncVars, verVars, pipeVars>>

TerminalPcs == {"exited", "faulted", "crashed"}

\* awaits: the event loop is free and other callbacks may run
AwaitPcs == {"login", "init_crypto", "start_client", "await_sync", "kb1",
             "ver_status", "request_ver", "poll_sleep", "sas_sleep",
             "confirm_wait", "verify_wait", "kb2", "running"}

Suspended == pc \in AwaitPcs

\* positions of startWithToken and later: the session exists
SessionPcs == {"init_crypto", "start_client", "await_sync", "kb1", "ver_status",
               "request_ver", "poll_sleep", "poll_test", "sas_sleep", "prompt_wait",
               "confirm_wait", "verify_wait", "kb2", "register", "find_room",
               "scrollback", "running"}

\* the process-local state of a freshly started process
FreshProcess(u) ==
  /\ pc = "start_read"
  /\ userId = u
  /\ accessToken = Null
  /\ deviceId = Null
  /\ tokenLogin = NoLogin
  /\ path = "none"
  /\ loggedIn = FALSE
  /\ session = NoLogin
  /\ fault = ""
  /\ exitCode = -1
  /\ syncRunning = FALSE
  /\ syncState = "null"
  /\ hasSyncedBefore = FALSE
  /\ syncResult = "none"
  /\ kbCalls = 0
  /\ isVerified = "unknown"
  /\ phase = NoRequest
  /\ verifierBound = FALSE
  /\ verifyState = "none"
  /\ sasReady = FALSE
  /\ sas = "unread"
  /\ input = "none"
  /\ confirmCalls = 0
  /\ mismatchCalls = 0
  /\ accepted = FALSE
  /\ listenerOn = FALSE
  /\ roomFound = "unknown"
  /\ backfillRequested = FALSE
  /\ timeline = <<>>
  /\ liveCount = 0
  /\ pending = {}
  /\ decrypted = {}
  /\ sink = <<>>
  /\ backfillState = "idle"
  /\ rooms = <<>>
  /\ roomList = <<>>
  /\ listed = FALSE

Init ==
  /\ localStorage = [token |-> [u \in Users |-> Null], device |-> [u \in Users |-> Null]]
  /\ loginCount = 0
  /\ persisted = [u \in Users |-> NoLogin]
  /\ \E u \in Users : FreshProcess(u)

\* an uncaught error ends the process with a failure status
Throw(msg) ==
  /\ pc' = "faulted"
  /\ fault' = msg
  /\ exitCode' = 1
  /\ syncRunning' = FALSE

\* ------------------------------------------------------------------ start
\* NeedsLogin with the test on the device id inverted
NeedsLogin_inverted(tok, dev) == tok = Null \/ dev # Null

\* L88: the test that selects the fresh-authentication path
NeedsLogin(tok, dev) == tok = Null \/ dev = Null

\* L82-88 and L100-108
ReadStore ==
  /\ pc = "start_read"
  /\ accessToken' = localStorage.token[userId]
  /\ deviceId' = localStorage.device[userId]
  /\ IF NeedsLogin(localStorage.token[userId], localStorage.device[userId])
       THEN /\ path' = "fresh"
            /\ pc' = "login"
            /\ UNCHANGED tokenLogin
       ELSE /\ path' = "fast"
            /\ tokenLogin' = [accessToken |-> localStorage.token[userId],
                              deviceId |-> localStorage.device[userId]]
            /\ pc' = "create_client"
  /\ UNCHANGED <<credVars, userId, loggedIn, session, endVars, syncVars, verVars, pipeVars>>

\* Login that opens the session at once, leaving persistence for later
Login_unpersisted ==
  /\ pc = "login"
  /\ loginCount < MaxLogins
  /\ loginCount' = loginCount + 1
  /\ tokenLogin' = [accessToken |-> AccessTokenOf(loginCount + 1),
                    deviceId |-> DeviceIdOf(loginCount + 1)]
  /\ deviceId' = DeviceIdOf(loginCount + 1)
  /\ loggedIn' = TRUE
  /\ pc' = "create_client"
  /\ UNCHANGED <<localStorage, persisted, userId, accessToken, path, session,
                 endVars, syncVars, verVars, pipeVars>>

\* L91-92 with getTokenLogin L55-76: the password login succeeds
Login ==
  /\ pc = "login"
  /\ loginCount < MaxLogins
  /\ loginCount' = loginCount + 1
  /\ tokenLogin' = [accessToken |-> AccessTokenOf(loginCount + 1),
                    deviceId |-> DeviceIdOf(loginCount + 1)]
  /\ deviceId' = DeviceIdOf(loginCount + 1)
  /\ loggedIn' = TRUE
  /\ pc' = "set_token"
  /\ UNCHANGED <<localStorage, persisted, userId, accessToken, path, session,
                 endVars, syncVars, verVars, pipeVars>>

\* L62: the homeserver rejects the password login, the error propagates
LoginFail ==
  /\ pc = "login"
  /\ Throw("AuthenticationError")
  /\ UNCHANGED <<credVars, startVars, syncState, hasSyncedBefore, syncResult,
                 verVars, pipeVars>>

\* SetToken that keeps a token already in the store
SetToken_keepsOld ==
  /\ pc = "set_token"
  /\ localStorage' = IF localStorage.token[userId] = Null
                       THEN [localStorage EXCEPT !.token[userId] = tokenLogin.accessToken]
                       ELSE localStorage
  /\ pc' = "set_device"
  /\ UNCHANGED <<loginCount, persisted, startVars, endVars, syncVars, verVars, pipeVars>>

\* L95-98
SetToken ==
  /\ pc = "set_token"
  /\ localStorage' = [localStorage EXCEPT !.token[userId] = tokenLogin.accessToken]
  /\ pc' = "set_device"
  /\ UNCHANGED <<loginCount, persisted, startVars, endVars, syncVars, verVars, pipeVars>>

\* L99
SetDevice ==
  /\ pc = "set_device"
  /\ localStorage' = [localStorage EXCEPT !.device[userId] = tokenLogin.deviceId]
  /\ persisted' = [persisted EXCEPT ![userId] = tokenLogin]
  /\ pc' = "create_client"
  /\ UNCHANGED <<loginCount, startVars, endVars, syncVars, verVars, pipeVars>>

\* L111, L29-34
CreateClient ==
  /\ pc = "create_client"
  /\ session' = tokenLogin
  /\ pc' = "init_crypto"
  /\ UNCHANGED <<credVars, userId, accessToken, deviceId, tokenLogin, path, loggedIn,
                 endVars, syncVars, verVars, pipeVars>>

\* L35-37
InitRustCrypto ==
  /\ pc = "init_crypto"
  /\ pc' = "start_client"
  /\ UNCHANGED <<credVars, startVars, endVars, syncVars, verVars, pipeVars>>

\* L39 and the registration of the once-listener of L41-43, which runs in the
\* continuation of the await before any report of the loop can be delivered
StartClient ==
  /\ pc = "start_client"
  /\ syncRunning' = TRUE
  /\ pc' = "await_sync"
  /\ UNCHANGED <<credVars, startVars, endVars, syncState, hasSyncedBefore, syncResult,
                 verVars, pipeVars>>

\* ------------------------------------------------------------ sync loop
\* States the sync loop of the client library can report next (ClientEvent.Sync).
\* PREPARED is reported once, after the first completed sync; a failed request
\* is reported as RECONNECTING or ERROR and retried.
NextSyncStates ==
  IF ~hasSyncedBefore
    THEN CASE syncState = "null" -> {"PREPARED", "RECONNECTING", "ERROR"}
           [] syncState = "RECONNECTING" -> {"PREPARED", "ERROR"}
           [] OTHER -> {"PREPARED"}
    ELSE CASE syncState = "PREPARED" -> {"SYNCING"}
           [] syncState = "SYNCING" -> {"RECONNECTING"}
           [] syncState = "RECONNECTING" -> {"SYNCING", "ERROR"}
           [] OTHER -> {"SYNCING"}

SyncStep(s) ==
  /\ syncRunning
  /\ s \in NextSyncStates
  /\ syncState' = s
  /\ hasSyncedBefore' = (hasSyncedBefore \/ s = "PREPARED")

\* L45: the test on the state the promise of L41 resolved with
SyncOk(state) == state = "PREPARED"

\* OnceSync that forgets the stored credentials when the sync fails
OnceSync_forgets(s) ==
  /\ pc = "await_sync"
  /\ SyncStep(s)
  /\ syncResult' = s
  /\ IF SyncOk(s)
       THEN /\ pc' = "kb1"
            /\ UNCHANGED <<syncRunning, endVars, localStorage>>
       ELSE /\ Throw("Sync failed.")
            /\ localStorage' = [token |-> [localStorage.token EXCEPT ![userId] = Null],
                                device |-> [localStorage.device EXCEPT ![userId] = Null]]
  /\ UNCHANGED <<loginCount, persisted, startVars, verVars, pipeVars>>

\* L41-49, L111-113, L154-161: the first report of the sync loop resolves the
\* once-listener; startWithToken returns the client or throws
OnceSync(s) ==
  /\ pc = "await_sync"
  /\ SyncStep(s)
  /\ syncResult' = s
  /\ IF SyncOk(s)
       THEN /\ pc' = "kb1"
            /\ UNCHANGED <<syncRunning, endVars>>
       ELSE Throw("Sync failed.")
  /\ UNCHANGED <<credVars, startVars, verVars, pipeVars>>

\* a later report of the sync loop: nothing of main.ts listens to it
SyncReport(s) ==
  /\ Suspended
  /\ pc # "await_sync"
  /\ SyncStep(s)
  /\ UNCHANGED <<credVars, pc, startVars, endVars, syncRunning, syncResult,
                 verVars, pipeVars>>

\* ------------------------------------------------- key backup, verification
\* L161-162
KeyBackup1 ==
  /\ pc = "kb1"
  /\ kbCalls' = kbCalls + 1
  /\ pc' = "ver_status"
  /\ UNCHANGED <<credVars, startVars, endVars, syncVars, isVerified, phase,
                 verifierBound, verifyState, sasReady, sas, input, confirmCalls,
                 mismatchCalls, accepted, pipeVars>>

\* GetVerStatus with the second key-backup check inside the unverified branch
GetVerStatus_skipsBackup(v) ==
  /\ pc = "ver_status"
  /\ isVerified' = IF v THEN "yes" ELSE "no"
  /\ pc' = IF ~v THEN "request_ver" ELSE "register"
  /\ UNCHANGED <<credVars, startVars, endVars, syncVars, kbCalls, phase,
                 verifierBound, verifyState, sasReady, sas, input, confirmCalls,
                 mismatchCalls, accepted, pipeVars>>

\* GetVerStatus with the test of L168 inverted
GetVerStatus_inverted(v) ==
  /\ pc = "ver_status"
  /\ isVerified' = IF v THEN "yes" ELSE "no"
  /\ pc' = IF v THEN "request_ver" ELSE "kb2"
  /\ UNCHANGED <<credVars, startVars, endVars, syncVars, kbCalls, phase,
                 verifierBound, verifyState, sasReady, sas, input, confirmCalls,
                 mismatchCalls, accepted, pipeVars>>

\* L165-168: v is what verstatus.isVerified() answers
GetVerStatus(v) ==
  /\ pc = "ver_status"
  /\ isVerified' = IF v THEN "yes" ELSE "no"
  /\ pc' = IF ~v THEN "request_ver" ELSE "kb2"
  /\ UNCHANGED <<credVars, startVars, endVars, syncVars, kbCalls, phase,
                 verifierBound, verifyState, sasReady, sas, input, confirmCalls,
                 mismatchCalls, accepted, pipeVars>>

\* L169-170
RequestVer ==
  /\ pc = "request_ver"
  /\ phase' = Requested
  /\ pc' = "poll_test"
  /\ UNCHANGED <<credVars, startVars, endVars, syncVars, kbCalls, isVerified,
                 verifierBound, verifyState, sasReady, sas, input, confirmCalls,
                 mismatchCalls, accepted, pipeVars>>

\* L172: the condition of the poll loop
LoopContinues(ph) == ph < Started

\* L172 and, when the loop ends, L176-179: verifier.verify() is called on
\* verReq.verifier; on an undefined verifier the call throws a TypeError
PollTest ==
  /\ pc = "poll_test"
  /\ IF LoopContinues(phase)
       THEN /\ pc' = "poll_sleep"
            /\ UNCHANGED <<verifyState, endVars, syncRunning>>
       ELSE IF verifierBound
              THEN /\ verifyState' = "pending"
                   /\ pc' = "sas_sleep"
                   /\ UNCHANGED <<endVars, syncRunning>>
              ELSE /\ Throw("TypeError: verifier is undefined")
                   /\ UNCHANGED verifyState
  /\ UNCHANGED <<credVars, startVars, syncState, hasSyncedBefore, syncResult,
                 kbCalls, isVerified, phase, verifierBound, sasReady, sas, input,
                 confirmCalls, mismatchCalls, accepted, pipeVars>>

\* L173-174: the one-second timer of the poll loop fires
PollTimer ==
  /\ pc = "poll_sleep"
  /\ pc' = "poll_test"
  /\ UNCHANGED <<credVars, startVars, endVars, syncVars, verVars, pipeVars>>

\* The peer device drives the request; its messages reach verReq through the
\* sync loop, so only while the flow is suspended.
PeerActs == Suspended /\ syncRunning

PeerUnchanged ==
  UNCHANGED <<credVars, pc, startVars, endVars, syncVars, kbCalls, isVerified,
              sas, input, confirmCalls, mismatchCalls, accepted, pipeVars>>

\* the peer accepts the request
PeerReady ==
  /\ PeerActs
  /\ phase = Requested
  /\ phase' = Ready
  /\ UNCHANGED <<verifierBound, verifyState, sasReady>>
  /\ PeerUnchanged

\* the peer starts m.sas.v1: a Verifier is bound to the request
PeerStart ==
  /\ PeerActs
  /\ phase = Ready
  /\ phase' = Started
  /\ verifierBound' = TRUE
  /\ UNCHANGED <<verifyState, sasReady>>
  /\ PeerUnchanged

\* the peer cancels (or the request times out): verify() rejects if in flight
PeerCancel ==
  /\ PeerActs
  /\ phase \in {Requested, Ready, Started}
  /\ phase' = Cancelled
  /\ verifyState' = IF verifyState = "pending" THEN "rejected" ELSE verifyState
  /\ UNCHANGED <<verifierBound, sasReady>>
  /\ PeerUnchanged

\* the key exchange of verify() completes: the verifier derives the SAS
PeerExchange ==
  /\ PeerActs
  /\ phase = Started
  /\ verifyState = "pending"
  /\ ~sasReady
  /\ sasReady' = TRUE
  /\ UNCHANGED <<phase, verifierBound, verifyState>>
  /\ PeerUnchanged

\* both sides confirmed: the request is done and verify() resolves
PeerDone ==
  /\ PeerActs
  /\ phase = Started
  /\ verifyState = "pending"
  /\ confirmCalls > 0
  /\ phase' = Done
  /\ verifyState' = "resolved"
  /\ UNCHANGED <<verifierBound, sasReady>>
  /\ PeerUnchanged

\* L179-183: the one-second timer fires, the callbacks are read and the
\* blocking prompt is entered
SasTimer ==
  /\ pc = "sas_sleep"
  /\ sas' = IF sasReady THEN "callbacks" ELSE "undefined"
  /\ pc' = "prompt_wait"
  /\ UNCHANGED <<credVars, startVars, endVars, syncVars, kbCalls, isVerified, phase,
                 verifierBound, verifyState, sasReady, input, confirmCalls,
                 mismatchCalls, accepted, pipeVars>>

\* Rejects that takes only "n" for a rejection
Rejects_onlyN(i) == i = "n"

\* L184: the test on the answer of the prompt
Rejects(i) == i # "y"

\* process.exit(0)
Exit0 ==
  /\ pc' = "exited"
  /\ exitCode' = 0
  /\ syncRunning' = FALSE
  /\ UNCHANGED fault

\* L183-189: the prompt returns i; reject: sas?.mismatch() and process.exit(0);
\* accept: sas?.confirm() is called and awaited
PromptAnswer(i) ==
  /\ pc = "prompt_wait"
  /\ input' = i
  /\ IF Rejects(i)
       THEN /\ mismatchCalls' = IF sas = "callbacks" THEN mismatchCalls + 1 ELSE mismatchCalls
            /\ Exit0
            /\ UNCHANGED confirmCalls
       ELSE /\ confirmCalls' = IF sas = "callbacks" THEN confirmCalls + 1 ELSE confirmCalls
            /\ pc' = "confirm_wait"
            /\ UNCHANGED <<mismatchCalls, endVars, syncRunning>>
  /\ UNCHANGED <<credVars, startVars, syncState, hasSyncedBefore, syncResult, kbCalls,
                 isVerified, phase, verifierBound, verifyState, sasReady, sas,
                 accepted, pipeVars>>

\* L189-190: the awaited sas?.confirm() settles (at once when sas is undefined);
\* it rejects when the request was cancelled meanwhile
ConfirmSettle ==
  /\ pc = "confirm_wait"
  /\ IF sas = "callbacks" /\ phase = Cancelled
       THEN /\ Throw("confirm failed")
            /\ UNCHANGED accepted
       ELSE /\ accepted' = TRUE
            /\ pc' = "verify_wait"
            /\ UNCHANGED <<endVars, syncRunning>>
  /\ UNCHANGED <<credVars, startVars, syncState, hasSyncedBefore, syncResult, kbCalls,
                 isVerified, phase, verifierBound, verifyState, sasReady, sas, input,
                 confirmCalls, mismatchCalls, pipeVars>>

\* L192: await wait
AwaitVerify ==
  /\ pc = "verify_wait"
  /\ verifyState \in {"resolved", "rejected"}
  /\ IF verifyState = "resolved"
       THEN /\ pc' = "kb2"
            /\ UNCHANGED <<endVars, syncRunning>>
       ELSE Throw("verification cancelled")
  /\ UNCHANGED <<credVars, startVars, syncState, hasSyncedBefore, syncResult,
                 verVars, pipeVars>>

\* L178: `wait` rejects while no handler is attached to it (the flow is in an
\* earlier await): the runtime may end the process on the unhandled rejection
UnhandledRejection ==
  /\ pc \in {"sas_sleep", "confirm_wait"}
  /\ verifyState = "rejected"
  /\ Throw("unhandled rejection")
  /\ UNCHANGED <<credVars, startVars, syncState, hasSyncedBefore, syncResult,
                 verVars, pipeVars>>

\* L195
KeyBackup2 ==
  /\ pc = "kb2"
  /\ kbCalls' = kbCalls + 1
  /\ pc' = "register"
  /\ UNCHANGED <<credVars, startVars, endVars, syncVars, isVerified, phase,
                 verifierBound, verifyState, sasReady, sas, input, confirmCalls,
                 mismatchCalls, accepted, pipeVars>>

\* -------------------------------------------------------- timeline pipeline
\* L197-215: client.on(RoomEvent.Timeline, ...)
RegisterListener ==
  /\ pc = "register"
  /\ listenerOn' = TRUE
  /\ pc' = "find_room"
  /\ UNCHANGED <<credVars, startVars, endVars, syncVars, verVars, roomFound,
                 backfillRequested, timelineVars, roomVars>>

\* L217: found says whether a room named "Emil" is in the store
FindRoom(found) ==
  /\ pc = "find_room"
  /\ roomFound' = IF found THEN "yes" ELSE "no"
  /\ pc' = "scrollback"
  /\ UNCHANGED <<credVars, startVars, endVars, syncVars, verVars, listenerOn,
                 backfillRequested, timelineVars, roomVars>>

\* L219: client.scrollback(emilroom, 100); on an undefined room the library
\* dereferences it and throws a TypeError
Scrollback ==
  /\ pc = "scrollback"
  /\ IF roomFound = "yes"
       THEN /\ backfillRequested' = TRUE
            /\ pc' = "running"
            /\ UNCHANGED <<endVars, syncRunning>>
       ELSE /\ Throw("TypeError: room is undefined")
            /\ UNCHANGED backfillRequested
  /\ UNCHANGED <<credVars, startVars, syncState, hasSyncedBefore, syncResult,
                 verVars, listenerOn, roomFound, timelineVars, roomVars>>

\* ------------------------------------------------------ crash and restart
\* the process is killed at an arbitrary point
Crash ==
  /\ pc \notin TerminalPcs
  /\ pc' = "crashed"
  /\ exitCode' = 137
  /\ syncRunning' = FALSE
  /\ UNCHANGED <<credVars, startVars, fault, syncState, hasSyncedBefore, syncResult,
                 verVars, pipeVars>>

\* the program is run again: L9-11 reopen ./localstorage, L154 calls start
\* the process-local state starts afresh (L154)
Reboot(u) ==
  /\ pc' = "start_read"
  /\ userId' = u
  /\ accessToken' = Null
  /\ deviceId' = Null
  /\ tokenLogin' = NoLogin
  /\ path' = "none"
  /\ loggedIn' = FALSE
  /\ session' = NoLogin
  /\ fault' = ""
  /\ exitCode' = -1
  /\ syncRunning' = FALSE
  /\ syncState' = "null"
  /\ hasSyncedBefore' = FALSE
  /\ syncResult' = "none"
  /\ kbCalls' = 0
  /\ isVerified' = "unknown"
  /\ phase' = NoRequest
  /\ verifierBound' = FALSE
  /\ verifyState' = "none"
  /\ sasReady' = FALSE
  /\ sas' = "unread"
  /\ input' = "none"
  /\ confirmCalls' = 0
  /\ mismatchCalls' = 0
  /\ accepted' = FALSE
  /\ listenerOn' = FALSE
  /\ roomFound' = "unknown"
  /\ backfillRequested' = FALSE
  /\ timeline' = <<>>
  /\ liveCount' = 0
  /\ pending' = {}
  /\ decrypted' = {}
  /\ sink' = <<>>
  /\ backfillState' = "idle"
  /\ rooms' = <<>>
  /\ roomList' = <<>>
  /\ listed' = FALSE

Restart ==
  /\ pc \in TerminalPcs
  /\ \E u \in Users : Reboot(u)
  /\ UNCHANGED credVars

Next ==
  \/ ReadStore
  \/ Login
  \/ LoginFail
  \/ SetToken
  \/ SetDevice
  \/ CreateClient
  \/ InitRustCrypto
  \/ StartClient
  \/ \E s \in {"PREPARED", "RECONNECTING", "ERROR"} : OnceSync(s)
  \/ \E s \in {"SYNCING", "RECONNECTING", "ERROR"} : SyncReport(s)
  \/ KeyBackup1
  \/ \E v \in BOOLEAN : GetVerStatus(v)
  \/ RequestVer
  \/ PollTest
  \/ PollTimer
  \/ PeerReady
  \/ PeerStart
  \/ PeerCancel
  \/ PeerExchange
  \/ PeerDone
  \/ SasTimer
  \/ \E i \in Inputs : PromptAnswer(i)
  \/ ConfirmSettle
  \/ AwaitVerify
  \/ UnhandledRejection
  \/ KeyBackup2
  \/ RegisterListener
  \/ \E found \in BOOLEAN : FindRoom(found)
  \/ Scrollback
  \/ Crash
  \/ Restart

Spec == Init /\ [][Next]_vars

TypeOK ==
  /\ pc \in AwaitPcs \cup SessionPcs \cup TerminalPcs
            \cup {"start_read", "set_token", "set_device", "create_client"}
  /\ loginCount \in 0..MaxLogins
  /\ kbCalls \in 0..2
  /\ phase \in NoRequest..Done

\* ---------------------------------------------- timeline pipeline, running
\* The pipeline is explored from the state in which the second key-backup
\* check has returned (a state of Spec, see SessionReady), so that its
\* interleavings are not multiplied by those of the session start.

Kinds == {"m.room.message", "m.room.encrypted", "m.room.member"}

\* origin timestamps: live events 150, 160, ...; backfilled events 100, 200, ...
LiveTs(i) == 140 + 10 * i
BackfillTs(j) == 100 * j

\* L200-203 and L225-226: the filter on the event type
IsMessage(e) == e.type \in {"m.room.message", "m.room.encrypted"}

\* L207: decryptEventIfNeeded has to wait for the decryption of e
NeedsDecrypt(e, dec) == e.type = "m.room.encrypted" /\ e.id \notin dec

\* event.getContent(): the clear content once decrypted, else the wire content
ContentOf(e, dec) ==
  IF e.type = "m.room.encrypted"
    THEN IF e.id \in dec THEN "clear" ELSE "cipher"
    ELSE "plain"

\* L209 and L228: one console.log(event.getContent())
Printed(e, dec, by) ==
  [id |-> e.id, ts |-> e.ts, type |-> e.type, content |-> ContentOf(e, dec), by |-> by]

\* L199-214: the listener is called for each event of one batch; the calls that
\* do not have to wait for a decryption print in call order
RECURSIVE OnTimeline(_, _, _)
OnTimeline(events, snk, dec) ==
  IF events = <<>>
    THEN snk
    ELSE LET e == Head(events)
         IN OnTimeline(Tail(events),
                       IF IsMessage(e) /\ ~NeedsDecrypt(e, dec)
                         THEN Append(snk, Printed(e, dec, "listener"))
                         ELSE snk,
                       dec)

\* L207: the listener calls of a batch that stay suspended in the await
Suspends(events, dec) ==
  {events[k].id : k \in {n \in 1..Len(events) :
                           IsMessage(events[n]) /\ NeedsDecrypt(events[n], dec)}}

\* L220-230: the forEach of the then-callback of scrollback
RECURSIVE ScanTimeline(_, _, _)
ScanTimeline(events, snk, dec) ==
  IF events = <<>>
    THEN snk
    ELSE LET e == Head(events)
         IN ScanTimeline(Tail(events),
                         IF IsMessage(e) THEN Append(snk, Printed(e, dec, "scan")) ELSE snk,
                         dec)

PipelineUnchanged ==
  UNCHANGED <<credVars, pc, startVars, endVars, syncVars, verVars, listenerOn,
              roomFound, backfillRequested, roomVars>>

\* the sync loop delivers a live event of room "Emil": it is appended to the
\* live timeline and RoomEvent.Timeline calls the listener (L197-215)
LiveEvent(kind) ==
  /\ pc = "running"
  /\ syncRunning
  /\ backfillState # "arrived"
  /\ liveCount < MaxLive
  /\ LET e == [id |-> liveCount + 1, ts |-> LiveTs(liveCount + 1), type |-> kind]
     IN /\ timeline' = Append(timeline, e)
        /\ sink' = IF listenerOn THEN OnTimeline(<<e>>, sink, decrypted) ELSE sink
        /\ pending' = IF listenerOn THEN pending \cup Suspends(<<e>>, decrypted) ELSE pending
  /\ liveCount' = liveCount + 1
  /\ UNCHANGED <<decrypted, backfillState>>
  /\ PipelineUnchanged

\* the decryption of the i-th event of the timeline completes; a listener call
\* suspended on it (L207) resumes and prints (L209-213)
DecryptDone(i) ==
  /\ pc = "running"
  /\ syncRunning
  /\ i \in 1..Len(timeline)
  /\ timeline[i].type = "m.room.encrypted"
  /\ timeline[i].id \notin decrypted
  /\ decrypted' = decrypted \cup {timeline[i].id}
  /\ IF timeline[i].id \in pending
       THEN /\ pending' = pending \ {timeline[i].id}
            /\ sink' = Append(sink, Printed(timeline[i], decrypted', "listener"))
       ELSE UNCHANGED <<pending, sink>>
  /\ UNCHANGED <<timeline, liveCount, backfillState>>
  /\ PipelineUnchanged

\* the events the backfill request returns, oldest first
BackfillBatch(kinds) ==
  [j \in 1..MaxBackfill |-> [id |-> MaxLive + j, ts |-> BackfillTs(j), type |-> kinds[j]]]

Reverse(seq) == [k \in 1..Len(seq) |-> seq[Len(seq) + 1 - k]]

\* L219: the backfill request completes: the library puts the events at the
\* start of the live timeline, newest first, and RoomEvent.Timeline calls the
\* listener for each; the scrollback promise resolves
BackfillArrive(kinds) ==
  /\ pc = "running"
  /\ syncRunning
  /\ backfillRequested
  /\ backfillState = "idle"
  /\ timeline' = BackfillBatch(kinds) \o timeline
  /\ sink' = IF listenerOn
               THEN OnTimeline(Reverse(BackfillBatch(kinds)), sink, decrypted)
               ELSE sink
  /\ pending' = IF listenerOn
                  THEN pending \cup Suspends(BackfillBatch(kinds), decrypted)
                  ELSE pending
  /\ backfillState' = "arrived"
  /\ UNCHANGED <<liveCount, decrypted>>
  /\ PipelineUnchanged

\* L219-231: the then-callback of scrollback scans the live timeline
BackfillScan ==
  /\ pc = "running"
  /\ backfillState = "arrived"
  /\ sink' = ScanTimeline(timeline, sink, decrypted)
  /\ backfillState' = "scanned"
  /\ UNCHANGED <<timeline, liveCount, pending, decrypted>>
  /\ PipelineUnchanged

\* The state of Spec in which the verification block is behind: alice logged in
\* with the first password login, the sync loop is prepared, both key-backup
\* checks have run; v tells whether the user was verified already.
SessionReady(v) ==
  /\ localStorage = [token |-> [u \in Users |-> IF u = "alice" THEN AccessTokenOf(1) ELSE Null],
                     device |-> [u \in Users |-> IF u = "alice" THEN DeviceIdOf(1) ELSE Null]]
  /\ loginCount = 1
  /\ persisted = [u \in Users |-> IF u = "alice"
                                   THEN [accessToken |-> AccessTokenOf(1),
                                         deviceId |-> DeviceIdOf(1)]
                                   ELSE NoLogin]
  /\ pc = "register"
  /\ userId = "alice"
  /\ accessToken = Null
  /\ deviceId = DeviceIdOf(1)
  /\ tokenLogin = [accessToken |-> AccessTokenOf(1), deviceId |-> DeviceIdOf(1)]
  /\ path = "fresh"
  /\ loggedIn = TRUE
  /\ session = [accessToken |-> AccessTokenOf(1), deviceId |-> DeviceIdOf(1)]
  /\ fault = ""
  /\ exitCode = -1
  /\ syncRunning = TRUE
  /\ syncState = "PREPARED"
  /\ hasSyncedBefore = TRUE
  /\ syncResult = "PREPARED"
  /\ kbCalls = 2
  /\ isVerified = IF v THEN "yes" ELSE "no"
  /\ phase = IF v THEN NoRequest ELSE Done
  /\ verifierBound = ~v
  /\ verifyState = IF v THEN "none" ELSE "resolved"
  /\ sasReady = ~v
  /\ sas = IF v THEN "unread" ELSE "callbacks"
  /\ input = IF v THEN "none" ELSE "y"
  /\ confirmCalls = IF v THEN 0 ELSE 1
  /\ mismatchCalls = 0
  /\ accepted = ~v
  /\ listenerOn = FALSE
  /\ roomFound = "unknown"
  /\ backfillRequested = FALSE

TimelineEmpty ==
  /\ timeline = <<>>
  /\ liveCount = 0
  /\ pending = {}
  /\ decrypted = {}
  /\ sink = <<>>
  /\ backfillState = "idle"

NoRoomList ==
  /\ rooms = <<>>
  /\ roomList = <<>>
  /\ listed = FALSE

InitPipeline ==
  /\ \E v \in BOOLEAN : SessionReady(v)
  /\ TimelineEmpty
  /\ NoRoomList

NextPipeline ==
  \/ RegisterListener
  \/ \E found \in BOOLEAN : FindRoom(found)
  \/ Scrollback
  \/ \E kind \in Kinds : LiveEvent(kind)
  \/ \E i \in 1..(MaxLive + MaxBackfill) : DecryptDone(i)
  \/ \E kinds \in [1..MaxBackfill -> Kinds] : BackfillArrive(kinds)
  \/ BackfillScan

SpecPipeline == InitPipeline /\ [][NextPipeline]_vars

\* ------------------------------------------------------------ getRoomList
\* a room is the sequence of the timestamps of the events of its live timeline
RoomTimelines == UNION {[1..n -> 1..MaxTs] : n \in 0..MaxRoomEvents}

RoomLists == UNION {[1..n -> RoomTimelines] : n \in 0..MaxRooms}

\* L128-149: the comparator given to rooms.sort; a and b are rooms
Cmp(a, b) ==
  IF Len(a) = 0 THEN -1
  ELSE IF Len(b) = 0 THEN 1
  ELSE IF a[Len(a)] = b[Len(b)] THEN 0
  ELSE IF a[Len(a)] > b[Len(b)] THEN 1 ELSE -1

\* Array.prototype.sort decides whether the later element k goes before the
\* earlier element y either from cmp(y, k) > 0 or from cmp(k, y) < 0: which of
\* the two calls it makes is left to the engine
GoesBefore(rs, k, y, call) ==
  IF call = "earlier,later" THEN Cmp(rs[y], rs[k]) > 0 ELSE Cmp(rs[k], rs[y]) < 0

\* stable insertion of index k into the sorted indexes
RECURSIVE InsertRoom(_, _, _, _)
InsertRoom(rs, sorted, k, call) ==
  IF sorted = <<>>
    THEN <<k>>
    ELSE LET y == sorted[Len(sorted)]
         IN IF GoesBefore(rs, k, y, call)
              THEN Append(InsertRoom(rs, SubSeq(sorted, 1, Len(sorted) - 1), k, call), y)
              ELSE Append(sorted, k)

\* L128: rooms.sort(cmp), as the indexes of the rooms in result order
RECURSIVE SortRooms(_, _, _)
SortRooms(rs, n, call) ==
  IF n = 0 THEN <<>> ELSE InsertRoom(rs, SortRooms(rs, n - 1, call), n, call)

\* L125-152
GetRoomList(call) ==
  /\ ~listed
  /\ roomList' = SortRooms(rooms, Len(rooms), call)
  /\ listed' = TRUE
  /\ UNCHANGED <<credVars, pc, startVars, endVars, syncVars, verVars, listenerOn,
                 roomFound, backfillRequested, timelineVars, rooms>>

\* getRoomList is called on the client of a ready session with any rooms
InitRooms ==
  /\ SessionReady(TRUE)
  /\ TimelineEmpty
  /\ rooms \in RoomLists
  /\ roomList = <<>>
  /\ listed = FALSE

NextRooms == \E call \in {"earlier,later", "later,earlier"} : GetRoomList(call)

SpecRooms == InitRooms /\ [][NextRooms]_vars

\* ------------------------------------------------------------ properties
PipelinePcs == {"register", "find_room", "scrollback", "running"}

HasPair(u) == persisted[u] # NoLogin

\* C1: once a fresh-authentication run has stored {accessToken, deviceId} for a
\* user, no run for that user performs a password login again, and every
\* session of that user is opened with exactly the stored token and device id,
\* which are still the ones in the store.
C1_CredentialRoundTrip ==
  /\ [](HasPair(userId) /\ pc \in SessionPcs =>
          /\ session = persisted[userId]
          /\ localStorage.token[userId] = session.accessToken
          /\ localStorage.device[userId] = session.deviceId)
  /\ [](path = "fast" => ~loggedIn /\ HasPair(userId))
  /\ [][HasPair(userId) => loginCount' = loginCount]_vars

C1_Witness ==
  /\ path = "fast"
  /\ pc = "kb1"
  /\ session = persisted[userId]
  /\ session.deviceId = DeviceIdOf(1)

\* C2: on the fresh-authentication path both credential keys hold the values of
\* this run's login before the session is opened and while it is used; a crash
\* before persistence is complete leaves a store on which the next run of start
\* takes the fresh-authentication path again.
C2_PersistBeforeUse ==
  /\ [](path = "fresh" /\ pc \in SessionPcs \cup {"create_client"} =>
          /\ localStorage.token[userId] = tokenLogin.accessToken
          /\ localStorage.device[userId] = tokenLogin.deviceId
          /\ tokenLogin.accessToken # Null
          /\ tokenLogin.deviceId # Null)
  /\ [][path = "fresh" /\ pc \in {"login", "set_token", "set_device"} /\ pc' = "crashed" =>
          localStorage'.token[userId] = Null \/ localStorage'.device[userId] = Null]_vars

C2_Witness ==
  /\ path = "fresh"
  /\ pc = "init_crypto"
  /\ loggedIn
  /\ localStorage.device[userId] = session.deviceId

\* C3: in every reachable state of the store, token-{userId} is present if and
\* only if device-{userId} is present.
C3_AtomicPair ==
  \A u \in Users : (localStorage.token[u] = Null) <=> (localStorage.device[u] = Null)

\* C4: the store changes only in the two writes of the fresh-authentication
\* path: a run on the fast path and every step after start has returned leave
\* it unchanged.
C4_StoreFrame ==
  [][localStorage' # localStorage => path = "fresh" /\ pc \in {"set_token", "set_device"}]_vars

C4_Witness ==
  /\ path = "fast"
  /\ pc = "running"
  /\ localStorage.token[userId] = session.accessToken

\* C5: start returns a Session only if the sync loop reported ready, and it
\* fails with a sync failure only once the loop has reported a terminal
\* failure (it blocks until one of the two).
C5_StartOutcome ==
  /\ (pc \in SessionPcs \ {"init_crypto", "start_client", "await_sync"} => syncResult = "PREPARED")
  /\ (fault = "Sync failed." => syncResult = "ERROR")

\* the flow has left the poll loop of L172-175
PastPollLoop ==
  \/ pc \in {"sas_sleep", "prompt_wait", "confirm_wait", "verify_wait"}
  \/ verifyState # "none"
  \/ fault = "TypeError: verifier is undefined"

\* C6: the code after the poll loop is reached only with a Verifier bound to
\* the request.
C6_VerifierBeforeExchange == PastPollLoop => verifierBound

\* C7: no later step (second key-backup check, pipeline, process exit) happens
\* while the exchange step verify() or the confirm call is still in flight.
C7_AwaitedBeforeSettled ==
  pc \in {"kb2", "exited"} \cup PipelinePcs =>
    /\ verifyState # "pending"
    /\ ~(confirmCalls > 0 /\ ~accepted)

\* C8: once the human has answered anything other than "y", the process has
\* exited with status 0, confirm was never invoked, the key-backup check ran
\* once only and the pipeline was not started.
C8_MismatchPath ==
  input \notin {"none", "y"} =>
    /\ pc = "exited"
    /\ exitCode = 0
    /\ confirmCalls = 0
    /\ kbCalls = 1
    /\ ~listenerOn
    /\ ~backfillRequested

C8_Witness ==
  /\ input = "n"
  /\ pc = "exited"
  /\ mismatchCalls = 1

\* C9: the key-backup check has run exactly once while a verification request
\* is issued and handled, runs a second time only after verification settled
\* (already verified, or request Done with verify() resolved), and has run
\* exactly twice when the listener is registered and the backfill is requested.
C9_KeyBackupTwice ==
  /\ kbCalls <= 2
  /\ (pc \in {"ver_status", "request_ver", "poll_test", "poll_sleep", "sas_sleep",
              "prompt_wait", "confirm_wait", "verify_wait", "kb2"} => kbCalls = 1)
  /\ (phase # NoRequest => kbCalls >= 1)
  /\ (pc = "kb2" \/ kbCalls = 2 =>
        isVerified = "yes" \/ (phase = Done /\ verifyState = "resolved"))
  /\ (pc \in PipelinePcs \/ listenerOn \/ backfillRequested => kbCalls = 2)

C9_Witness ==
  /\ pc = "running"
  /\ kbCalls = 2
  /\ phase = Done
  /\ listenerOn
  /\ backfillRequested

\* C10: when the user is already verified, no verification request exists, no
\* verify(), SAS read, prompt, confirm or mismatch happens, and the status
\* query is followed directly by the second key-backup check.
C10_AlreadyVerified ==
  /\ [](isVerified = "yes" =>
          /\ phase = NoRequest
          /\ ~verifierBound
          /\ verifyState = "none"
          /\ sas = "unread"
          /\ input = "none"
          /\ confirmCalls = 0
          /\ mismatchCalls = 0
          /\ ~accepted
          /\ pc \in {"kb2"} \cup PipelinePcs \cup TerminalPcs)
  /\ [][isVerified # "yes" /\ isVerified' = "yes" => pc' = "kb2"]_vars

C10_Witness ==
  /\ isVerified = "yes"
  /\ pc = "running"
  /\ kbCalls = 2

\* C15: when no room named "Emil" exists, the program ends with a RoomNotFound
\* report (not with an unrelated fault) and issues no backfill request.
C15_RoomNotFound ==
  /\ (roomFound = "no" => ~backfillRequested)
  /\ (roomFound = "no" /\ pc = "faulted" => fault = "RoomNotFound")

\* C16: while the accept/reject prompt is outstanding, and while the poll loop
\* sleeps, a step of the sync loop is enabled.
C16_SyncAdvances ==
  pc \in {"prompt_wait", "poll_sleep"} =>
    ENABLED (\E s \in {"SYNCING", "RECONNECTING", "ERROR"} : SyncReport(s))

\* the pair was issued by one single password login
Coherent(login) ==
  \E n \in 1..loginCount :
    /\ login.accessToken = AccessTokenOf(n)
    /\ login.deviceId = DeviceIdOf(n)

C18_OneDecision ==
  /\ (input # "none" =>
        /\ confirmCalls + mismatchCalls = 1
        /\ (input = "y" <=> confirmCalls = 1))
  /\ (accepted => confirmCalls = 1)

\* C19: the SAS read at L180 and shown at the prompt is the verifier's derived
\* SAS, never undefined.
C19_SasPresented ==
  pc = "prompt_wait" \/ input # "none" => sas = "callbacks"

\* the listener printed sink[i] for a live event
LiveByListener(i) == sink[i].by = "listener" /\ sink[i].id <= MaxLive

\* C11: the listener dispatches the live message events of the room in arrival
\* order, and dispatches an encrypted event only with its decrypted content.
C11_LiveOrder ==
  /\ \A i \in 1..Len(sink) : \A j \in 1..Len(sink) :
       i < j /\ LiveByListener(i) /\ LiveByListener(j) => sink[i].id < sink[j].id
  /\ \A i \in 1..Len(sink) : sink[i].by = "listener" => sink[i].content # "cipher"

\* C12: no event identity is dispatched to the sink twice.
C12_NoDuplicate ==
  \A i \in 1..Len(sink) : \A j \in 1..Len(sink) : i < j => sink[i].id # sink[j].id

\* C13: the dispatched events of the room are in non-decreasing timestamp order,
\* so no backfilled event is dispatched after a newer live event.
C13_Chronological ==
  \A i \in 1..Len(sink) : \A j \in 1..Len(sink) : i < j => sink[i].ts <= sink[j].ts

\* C20: every dispatch of an encrypted event, by the listener or by the scan
\* of the backfill, emits its decrypted content.
C20_DecryptedDispatch ==
  \A i \in 1..Len(sink) : sink[i].type = "m.room.encrypted" => sink[i].content = "clear"

\* timestamp of the last event of the room at position p of the result
LastTs(p) == rooms[roomList[p]][Len(rooms[roomList[p]])]

HasEvents(p) == Len(rooms[roomList[p]]) > 0

\* C14: the result of getRoomList is a permutation of the input with the rooms
\* without events first, then the rooms in non-decreasing order of their last
\* timestamp, rooms of equal last timestamp in input order; and the comparator
\* never says of two rooms that each goes before the other.
C14_RoomOrdering ==
  listed =>
    /\ Len(roomList) = Len(rooms)
    /\ {roomList[p] : p \in 1..Len(roomList)} = 1..Len(rooms)
    /\ \A p \in 1..Len(roomList) : \A q \in 1..Len(roomList) :
         p < q =>
           /\ ~(HasEvents(p) /\ ~HasEvents(q))
           /\ (HasEvents(p) /\ HasEvents(q) => LastTs(p) <= LastTs(q))
           /\ (HasEvents(p) /\ HasEvents(q) /\ LastTs(p) = LastTs(q)
                 => roomList[p] < roomList[q])
    /\ \A i \in 1..Len(rooms) : \A j \in 1..Len(rooms) :
         i # j => ~(Cmp(rooms[i], rooms[j]) < 0 /\ Cmp(rooms[j], rooms[i]) < 0)

====
